---- MODULE Spec2Model ----
(***************************************************************************)
(* Model of deployment_package/scripts/security_check.py: the              *)
(* SecurityChecker checklist, the filesystem of the working directory it   *)
(* inspects, and main(), which calls the seven checks and the summary.     *)
(*                                                                         *)
(* A file's text is a sequence of tokens (a variable name, "=", a value    *)
(* piece, "\n", ...); Python's `in` on strings is the search for a         *)
(* contiguous run of tokens and str.lower() maps every token to its        *)
(* lower-case spelling.                                                    *)
(***************************************************************************)
EXTENDS Integers, Sequences, FiniteSets, TLC

VARIABLES
    fs,             \* the working directory: path -> entry
    fs0,            \* the working directory when this run began
    issues,         \* SecurityChecker.issues
    warnings,       \* SecurityChecker.warnings
    checks_passed,  \* SecurityChecker.checks_passed
    checks_failed,  \* SecurityChecker.checks_failed
    pc,             \* the calls still to make, in order
    executed,       \* the calls made so far in this run, in order
    returned,       \* <<>> until the last call returns, then <<its value>>
    exception,      \* "none", or the exception that escaped
    run,            \* number of the current run of the process
    prev            \* <<>>, or <<outcome of the previous run>>

vars == <<fs, fs0, issues, warnings, checks_passed, checks_failed,
          pc, executed, returned, exception, run, prev>>

checker == <<issues, warnings, checks_passed, checks_failed>>

-----------------------------------------------------------------------------
(* Bounds *)

\* runs of the process made one after the other in the same directory
MaxRuns == 2

\* lines in which a sampled .env departs from the well-configured one
MaxEdits == 1

-----------------------------------------------------------------------------
(* Text *)

Range(s) == {s[i] : i \in DOMAIN s}

RECURSIVE Flatten(_)
Flatten(ss) == IF ss = <<>> THEN <<>> ELSE Head(ss) \o Flatten(Tail(ss))

\* pattern in content (str.__contains__)
Contains(content, pattern) ==
    \E i \in 1..(Len(content) - Len(pattern) + 1) :
        SubSeq(content, i, i + Len(pattern) - 1) = pattern

\* str.lower() of one token
LowerTok(t) ==
    CASE t = "SECRET_KEY"      -> "secret_key"
      [] t = "DB_PASSWORD"     -> "db_password"
      [] t = "DB_NAME"         -> "db_name"
      [] t = "DB_USER"         -> "db_user"
      [] t = "ALLOWED_HOSTS"   -> "allowed_hosts"
      [] t = "DEBUG"           -> "debug"
      [] t = "DJANGO_ENV"      -> "django_env"
      [] t = "True"            -> "true"
      [] t = "TRUE"            -> "true"
      [] t = "False"           -> "false"
      [] t = "Django-Insecure" -> "django-insecure"
      [] t = "k3Y9"            -> "k3y9"
      [] OTHER                 -> t

\* str.lower()
Lower(content) == [i \in DOMAIN content |-> LowerTok(content[i])]

\* ', '.join(names) is kept as the list of names joined
Message(msg, args) == [msg |-> msg, args |-> args]

-----------------------------------------------------------------------------
(* The working directory *)

\* An entry is absent, a regular file or a directory. Symbolic links,
\* directories that may not be searched and files that are not UTF-8 text
\* are outside the model.

Paths ==
    {".env", "nginx_ssl", "nginx_ssl/fullchain.pem", "nginx_ssl/privkey.pem",
     "Dockerfile.prod", "docker-compose.prod.yml", "entrypoint.prod.sh",
     "nginx.prod.conf", "logs", "db_backups", ".gitignore", "build_secure.py"}

Absent == [kind |-> "absent", readable |-> FALSE, mode |-> 0, text |-> <<>>]

\* a directory as mkdir leaves it (0o777 under umask 0o022)
NewDir == [kind |-> "dir", readable |-> TRUE, mode |-> 493, text |-> <<>>]

\* a regular file; readable says whether this process may open it
File(readable, mode, text) ==
    [kind |-> "file", readable |-> readable, mode |-> mode, text |-> text]

\* an existing file whose content is never read
Plain == File(TRUE, 420, <<>>)

Parent(p) ==
    IF p \in {"nginx_ssl/fullchain.pem", "nginx_ssl/privkey.pem"}
    THEN <<"nginx_ssl">> ELSE <<>>

\* Path(p).exists(): stat(p); ENOENT and ENOTDIR give False
Exists(f, p) ==
    /\ f[p].kind # "absent"
    /\ \A q \in Range(Parent(p)) : f[q].kind = "dir"

\* oct(os.stat(p).st_mode)[-3:], as three digits
Perms(f, p) ==
    <<(f[p].mode \div 64) % 8, (f[p].mode \div 8) % 8, f[p].mode % 8>>

\* what Path(p).read_text() raises, "none" when it returns the text
ReadError(f, p) ==
    IF f[p].kind = "dir" THEN "IsADirectoryError"
    ELSE IF ~f[p].readable THEN "PermissionError"
    ELSE "none"

read_text(f, p) == f[p].text

Mkdir_noop(f, d) == f

\* Path(d).mkdir(parents=True, exist_ok=True), d absent
Mkdir(f, d) == [f EXCEPT ![d] = NewDir]

-----------------------------------------------------------------------------
(* The tables of the checks *)

required_vars ==
    <<"SECRET_KEY", "DB_PASSWORD", "DB_NAME", "DB_USER",
      "ALLOWED_HOSTS", "DEBUG", "DJANGO_ENV">>

weak_patterns ==
    << <<"SECRET_KEY", <<"django-insecure">> >>,
       <<"DB_PASSWORD", <<"postgres">> >>,
       <<"DEBUG", <<"True">> >>,
       <<"SECRET_KEY", <<"change">> >>,
       <<"SECRET_KEY", <<"your-secret">> >> >>

required_files ==
    <<"Dockerfile.prod", "docker-compose.prod.yml", "entrypoint.prod.sh",
      "nginx.prod.conf">>

required_dirs == <<"logs", "db_backups", "nginx_ssl">>

sensitive_patterns == <<".env", "*.pem", "*.key", "db_backups", "logs">>

security_headers ==
    <<"X-Frame-Options", "X-Content-Type-Options", "X-XSS-Protection",
      "Strict-Transport-Security">>

\* main(): the seven checks, then the summary
main ==
    <<"check_env_file", "check_ssl_certificates", "check_docker_files",
      "check_directory_structure", "check_gitignore", "check_python_compiled",
      "check_security_headers", "print_summary">>

-----------------------------------------------------------------------------
(* The messages *)

EnvNotFound == Message(".env file not found", <<>>)
WorldReadable == Message(".env file is world-readable (consider chmod 600)", <<>>)
MissingVarsIssue(names) == Message("Missing environment variables", names)
WeakValue(var) == Message("Possible weak/default value for", <<var>>)
SslDirNotFound == Message("nginx_ssl directory not found", <<>>)
CertNotFound == Message("SSL certificate (fullchain.pem) not found", <<>>)
KeyNotFound == Message("SSL private key (privkey.pem) not found", <<>>)
FileNotFound(file) == Message("Required file not found", <<file>>)
DirNotFound(dir) == Message("Directory not found (will be created)", <<dir>>)
GitignoreNotFound == Message(".gitignore not found", <<>>)
GitignoreMissing(pats) == Message("Missing patterns in .gitignore", pats)
BuildNotFound == Message("build_secure.py not found", <<>>)
HeadersMissing(hdrs) == Message("Missing security headers", hdrs)

-----------------------------------------------------------------------------
(* The checks *)

\* the names of required_vars with no "NAME=" in the text
MissingVars(content) ==
    LET absent(v) == ~Contains(content, <<v, "=">>)
    IN  SelectSeq(required_vars, absent)

\* pattern.lower() in env_content.lower()
WeakHit(content, pattern) == Contains(Lower(content), Lower(pattern))

WeakWarnings_byName(content) ==
    LET hit(p) == WeakHit(content, <<p[1]>>)
        hits == SelectSeq(weak_patterns, hit)
    IN  [i \in DOMAIN hits |-> WeakValue(hits[i][1])]

\* one warning per pair of weak_patterns whose pattern the text holds
WeakWarnings(content) ==
    LET hit(p) == WeakHit(content, p[2])
        hits == SelectSeq(weak_patterns, hit)
    IN  [i \in DOMAIN hits |-> WeakValue(hits[i][1])]

\* the entries of a list that the text does not hold
MissingFrom(content, list) ==
    LET absent(x) == ~Contains(content, <<x>>)
    IN  SelectSeq(list, absent)

\* the entries of a list of paths that do not exist
NotFound(f, list) ==
    LET absent(p) == ~Exists(f, p)
    IN  SelectSeq(list, absent)

Call(name) ==
    /\ pc # <<>>
    /\ Head(pc) = name
    /\ executed' = Append(executed, name)

\* the call returns and main goes on to the next one
Return ==
    /\ pc' = Tail(pc)
    /\ exception' = "none"

\* the exception leaves the check and main: nothing catches it
Raise(e) ==
    /\ pc' = <<>>
    /\ exception' = e

check_env_file ==
    /\ Call("check_env_file")
    /\ UNCHANGED <<fs, fs0, returned, run, prev>>
    /\ IF ~Exists(fs, ".env")
       THEN /\ issues' = Append(issues, EnvNotFound)
            /\ checks_failed' = checks_failed + 1
            /\ UNCHANGED <<warnings, checks_passed>>
            /\ Return
       ELSE LET w == IF Perms(fs, ".env")[3] # 0
                     THEN Append(warnings, WorldReadable) ELSE warnings
                env_content == read_text(fs, ".env")
                missing_vars == MissingVars(env_content)
            IN  IF ReadError(fs, ".env") # "none"
                THEN /\ warnings' = w
                     /\ UNCHANGED <<issues, checks_passed, checks_failed>>
                     /\ Raise(ReadError(fs, ".env"))
                ELSE /\ IF missing_vars # <<>>
                        THEN /\ issues' = Append(issues, MissingVarsIssue(missing_vars))
                             /\ checks_failed' = checks_failed + 1
                             /\ UNCHANGED checks_passed
                        ELSE /\ checks_passed' = checks_passed + 1
                             /\ UNCHANGED <<issues, checks_failed>>
                     /\ warnings' = w \o WeakWarnings(env_content)
                     /\ Return

check_ssl_certificates ==
    /\ Call("check_ssl_certificates")
    /\ UNCHANGED <<fs, fs0, returned, run, prev>>
    /\ IF ~Exists(fs, "nginx_ssl")
       THEN /\ warnings' = Append(warnings, SslDirNotFound)
            /\ UNCHANGED <<issues, checks_passed, checks_failed>>
       ELSE LET cert == Exists(fs, "nginx_ssl/fullchain.pem")
                key == Exists(fs, "nginx_ssl/privkey.pem")
                found == (IF cert THEN 1 ELSE 0) + (IF key THEN 1 ELSE 0)
            IN  /\ issues' = issues \o (IF cert THEN <<>> ELSE <<CertNotFound>>)
                                    \o (IF key THEN <<>> ELSE <<KeyNotFound>>)
                /\ checks_failed' = checks_failed + (2 - found)
                /\ checks_passed' = checks_passed + found
                /\ UNCHANGED warnings
    /\ Return

check_docker_files_once ==
    /\ Call("check_docker_files")
    /\ UNCHANGED <<fs, fs0, returned, run, prev>>
    /\ LET missing == NotFound(fs, required_files)
       IN  /\ issues' = issues \o [i \in DOMAIN missing |-> FileNotFound(missing[i])]
           /\ checks_failed' = checks_failed + (IF missing # <<>> THEN 1 ELSE 0)
           /\ checks_passed' = checks_passed + (Len(required_files) - Len(missing))
    /\ UNCHANGED warnings
    /\ Return

check_docker_files ==
    /\ Call("check_docker_files")
    /\ UNCHANGED <<fs, fs0, returned, run, prev>>
    /\ LET missing == NotFound(fs, required_files)
       IN  /\ issues' = issues \o [i \in DOMAIN missing |-> FileNotFound(missing[i])]
           /\ checks_failed' = checks_failed + Len(missing)
           /\ checks_passed' = checks_passed + (Len(required_files) - Len(missing))
    /\ UNCHANGED warnings
    /\ Return

RECURSIVE DirLoop_issue(_, _)
DirLoop_issue(dirs, st) ==
    IF dirs = <<>> THEN st
    ELSE LET d == Head(dirs)
         IN  IF ~Exists(st.fs, d)
             THEN DirLoop_issue(Tail(dirs),
                                [st EXCEPT !.issues = Append(@, DirNotFound(d)),
                                           !.failed = @ + 1,
                                           !.fs = Mkdir(@, d)])
             ELSE DirLoop_issue(Tail(dirs), [st EXCEPT !.passed = @ + 1])

\* the loop of check_directory_structure over the directories left; st is
\* the directory and the checker's fields as the loop has left them
RECURSIVE DirLoop(_, _)
DirLoop(dirs, st) ==
    IF dirs = <<>> THEN st
    ELSE LET d == Head(dirs)
         IN  IF ~Exists(st.fs, d)
             THEN DirLoop(Tail(dirs),
                          [st EXCEPT !.warnings = Append(@, DirNotFound(d)),
                                     !.fs = Mkdir(@, d)])
             ELSE DirLoop(Tail(dirs), [st EXCEPT !.passed = @ + 1])

check_directory_structure ==
    /\ Call("check_directory_structure")
    /\ UNCHANGED <<fs0, returned, run, prev>>
    /\ LET st == DirLoop(required_dirs,
                         [fs |-> fs, issues |-> issues, warnings |-> warnings,
                          passed |-> checks_passed, failed |-> checks_failed])
       IN  /\ fs' = st.fs
           /\ issues' = st.issues
           /\ warnings' = st.warnings
           /\ checks_passed' = st.passed
           /\ checks_failed' = st.failed
    /\ Return

check_gitignore ==
    /\ Call("check_gitignore")
    /\ UNCHANGED <<fs, fs0, returned, run, prev, issues, checks_failed>>
    /\ IF ~Exists(fs, ".gitignore")
       THEN /\ warnings' = Append(warnings, GitignoreNotFound)
            /\ UNCHANGED checks_passed
            /\ Return
       ELSE IF ReadError(fs, ".gitignore") # "none"
       THEN /\ UNCHANGED <<warnings, checks_passed>>
            /\ Raise(ReadError(fs, ".gitignore"))
       ELSE LET missing == MissingFrom(read_text(fs, ".gitignore"), sensitive_patterns)
            IN  /\ IF missing # <<>>
                   THEN /\ warnings' = Append(warnings, GitignoreMissing(missing))
                        /\ UNCHANGED checks_passed
                   ELSE /\ checks_passed' = checks_passed + 1
                        /\ UNCHANGED warnings
                /\ Return

check_python_compiled ==
    /\ Call("check_python_compiled")
    /\ UNCHANGED <<fs, fs0, returned, run, prev, issues, checks_failed>>
    /\ IF Exists(fs, "build_secure.py")
       THEN /\ checks_passed' = checks_passed + 1
            /\ UNCHANGED warnings
       ELSE /\ warnings' = Append(warnings, BuildNotFound)
            /\ UNCHANGED checks_passed
    /\ Return

check_security_headers_warn ==
    /\ Call("check_security_headers")
    /\ UNCHANGED <<fs, fs0, returned, run, prev, issues, checks_failed>>
    /\ IF ~Exists(fs, "nginx.prod.conf")
       THEN /\ warnings' = Append(warnings, HeadersMissing(security_headers))
            /\ UNCHANGED checks_passed
            /\ Return
       ELSE IF ReadError(fs, "nginx.prod.conf") # "none"
       THEN /\ UNCHANGED <<warnings, checks_passed>>
            /\ Raise(ReadError(fs, "nginx.prod.conf"))
       ELSE LET missing == MissingFrom(read_text(fs, "nginx.prod.conf"), security_headers)
            IN  /\ IF missing # <<>>
                   THEN /\ warnings' = Append(warnings, HeadersMissing(missing))
                        /\ UNCHANGED checks_passed
                   ELSE /\ checks_passed' = checks_passed + 1
                        /\ UNCHANGED warnings
                /\ Return

check_security_headers ==
    /\ Call("check_security_headers")
    /\ UNCHANGED <<fs, fs0, returned, run, prev, issues, checks_failed>>
    /\ IF ~Exists(fs, "nginx.prod.conf")
       THEN /\ UNCHANGED <<warnings, checks_passed>>
            /\ Return
       ELSE IF ReadError(fs, "nginx.prod.conf") # "none"
       THEN /\ UNCHANGED <<warnings, checks_passed>>
            /\ Raise(ReadError(fs, "nginx.prod.conf"))
       ELSE LET missing == MissingFrom(read_text(fs, "nginx.prod.conf"), security_headers)
            IN  /\ IF missing # <<>>
                   THEN /\ warnings' = Append(warnings, HeadersMissing(missing))
                        /\ UNCHANGED checks_passed
                   ELSE /\ checks_passed' = checks_passed + 1
                        /\ UNCHANGED warnings
                /\ Return

ExitStatus_warnings(iss, warns) == IF iss # <<>> \/ warns # <<>> THEN 1 ELSE 0

\* the value print_summary returns
ExitStatus(iss, warns) == IF iss # <<>> THEN 1 ELSE 0

print_summary ==
    /\ Call("print_summary")
    /\ UNCHANGED <<fs, fs0, run, prev, checker>>
    /\ returned' = <<ExitStatus(issues, warnings)>>
    /\ Return

-----------------------------------------------------------------------------
(* The directories the runs start from *)

\* the values a line NAME=value of a sampled .env may give NAME; the first
\* is the well-configured one
EnvValues ==
    ( "SECRET_KEY"    :> << <<"k3Y9">>, <<"django-insecure", "-xyz">>,
                            <<"Django-Insecure", "-xyz">>, <<"change", "-me">>,
                            <<"your-secret", "-key">> >> ) @@
    ( "DB_PASSWORD"   :> << <<"k3Y9">>, <<"postgres">> >> ) @@
    ( "DB_NAME"       :> << <<"app">>, <<"postgres">> >> ) @@
    ( "DB_USER"       :> << <<"app">>, <<"postgres">> >> ) @@
    ( "ALLOWED_HOSTS" :> << <<"example.org">>, <<"change", ".example.org">> >> ) @@
    ( "DEBUG"         :> << <<"False">>, <<"True">>, <<"TRUE">> >> ) @@
    ( "DJANGO_ENV"    :> << <<"production">> >> )

\* a sampled .env: for each name the value of its line, 0 for no line
EnvChoices ==
    {c \in [Range(required_vars) -> 0..5] :
        \A v \in Range(required_vars) : c[v] <= Len(EnvValues[v])}

GoodChoice == [v \in Range(required_vars) |-> 1]

Edits(c) == Cardinality({v \in Range(required_vars) : c[v] # 1})

\* the text of the sampled .env: its lines in the order of required_vars
EnvText(c) ==
    LET line(v) == IF c[v] = 0 THEN <<>>
                   ELSE <<v, "=">> \o EnvValues[v][c[v]] \o <<"\n">>
    IN  Flatten([i \in DOMAIN required_vars |-> line(required_vars[i])])

\* a text with one line per entry of the list, but for the entries dropped
LinesOf(list, dropped) ==
    LET kept(x) == x \notin dropped
        rest == SelectSeq(list, kept)
    IN  Flatten([i \in DOMAIN rest |-> <<rest[i], "\n">>])

GoodGitignore == LinesOf(sensitive_patterns, {})
GoodNginxConf == LinesOf(security_headers, {})

\* .env of the runs of main: absent, a directory, a file this process may
\* not read, or a readable file of mode 0o600 or 0o644
EnvEntries ==
    {Absent, NewDir, File(FALSE, 384, EnvText(GoodChoice))} \cup
    {File(TRUE, m, EnvText(c)) :
        m \in {384, 420},
        c \in {GoodChoice, [GoodChoice EXCEPT !["DEBUG"] = 0],
               [GoodChoice EXCEPT !["DB_USER"] = 2]}}

\* .env of the runs of check_env_file alone
EnvEntriesWide ==
    {Absent, NewDir} \cup
    {File(r, m, EnvText(c)) :
        r \in BOOLEAN, m \in {384, 420},
        c \in {x \in EnvChoices : Edits(x) <= MaxEdits}}

\* nginx_ssl with its two files: <<directory, certificate, key>>
SslEntries ==
    {<<Absent, Absent, Absent>>, <<Plain, Absent, Absent>>} \cup
    {<<NewDir, c, k>> : c \in {Absent, Plain}, k \in {Absent, Plain}}

GitignoreEntries ==
    {Absent, NewDir, File(FALSE, 420, GoodGitignore),
     File(TRUE, 420, GoodGitignore),
     File(TRUE, 420, LinesOf(sensitive_patterns, {"*.key"}))}

NginxConfEntries ==
    {Absent, NewDir, File(FALSE, 420, GoodNginxConf),
     File(TRUE, 420, GoodNginxConf),
     File(TRUE, 420, LinesOf(security_headers, {"Strict-Transport-Security"}))}

MkFs(env, ssl, dockerfile, compose, entrypoint, nginxconf, logs, backups, gitignore, build) ==
    ( ".env" :> env ) @@
    ( "nginx_ssl" :> ssl[1] ) @@
    ( "nginx_ssl/fullchain.pem" :> ssl[2] ) @@
    ( "nginx_ssl/privkey.pem" :> ssl[3] ) @@
    ( "Dockerfile.prod" :> dockerfile ) @@
    ( "docker-compose.prod.yml" :> compose ) @@
    ( "entrypoint.prod.sh" :> entrypoint ) @@
    ( "nginx.prod.conf" :> nginxconf ) @@
    ( "logs" :> logs ) @@
    ( "db_backups" :> backups ) @@
    ( ".gitignore" :> gitignore ) @@
    ( "build_secure.py" :> build )

\* the directories a run of main starts in
FsMain ==
    {MkFs(env, ssl, dockerfile, compose, entrypoint, nginxconf, logs, backups,
          gitignore, build) :
        env \in EnvEntries, ssl \in SslEntries,
        dockerfile \in {Absent, Plain}, compose \in {Absent, Plain},
        entrypoint \in {Absent, Plain}, nginxconf \in NginxConfEntries,
        logs \in {Absent, NewDir}, backups \in {Absent, NewDir},
        gitignore \in GitignoreEntries, build \in {Absent, Plain}}

\* the directories check_directory_structure alone starts in
FsDirs ==
    {MkFs(Absent, ssl, Absent, Absent, Absent, Absent, logs, backups,
          Absent, Absent) :
        ssl \in SslEntries,
        logs \in {Absent, Plain, NewDir}, backups \in {Absent, Plain, NewDir}}

\* the directories check_env_file alone starts in
FsEnv ==
    {MkFs(env, <<Absent, Absent, Absent>>, Absent, Absent, Absent, Absent,
          Absent, Absent, Absent, Absent) :
        env \in EnvEntriesWide}

EmptyDirectory ==
    MkFs(Absent, <<Absent, Absent, Absent>>, Absent, Absent, Absent, Absent,
         Absent, Absent, Absent, Absent)

-----------------------------------------------------------------------------
(* The runs *)

\* SecurityChecker(): a process begins in directory f and will make calls
Start(f, calls) ==
    /\ fs = f
    /\ fs0 = f
    /\ issues = <<>>
    /\ warnings = <<>>
    /\ checks_passed = 0
    /\ checks_failed = 0
    /\ pc = calls
    /\ executed = <<>>
    /\ returned = <<>>
    /\ exception = "none"
    /\ run = 1
    /\ prev = <<>>

Terminated == pc = <<>>

\* the run came to the end of its calls, no exception escaped
Done == pc = <<>> /\ exception = "none"

Init == \E f \in FsMain : Start(f, main)

Next ==
    \/ check_env_file
    \/ check_ssl_certificates
    \/ check_docker_files
    \/ check_directory_structure
    \/ check_gitignore
    \/ check_python_compiled
    \/ check_security_headers
    \/ print_summary

\* one run of main() in any of the sampled directories
Spec == Init /\ [][Next]_vars

\* the script is started again in the directory the last run left
Rerun ==
    /\ Terminated
    /\ run < MaxRuns
    /\ run' = run + 1
    /\ prev' = <<[issues |-> issues, returned |-> returned,
                 exception |-> exception, fs0 |-> fs0]>>
    /\ issues' = <<>>
    /\ warnings' = <<>>
    /\ checks_passed' = 0
    /\ checks_failed' = 0
    /\ pc' = main
    /\ executed' = <<>>
    /\ returned' = <<>>
    /\ exception' = "none"
    /\ fs0' = fs
    /\ UNCHANGED fs

NextTwice == Next \/ Rerun

\* runs of main() one after the other in the same directory
SpecTwice == Init /\ [][NextTwice]_vars

InitDirs ==
    \E f \in FsDirs :
        Start(f, <<"check_directory_structure", "check_directory_structure">>)

\* check_directory_structure called twice in a row on one checker
SpecDirs == InitDirs /\ [][check_directory_structure]_vars

InitEnv == \E f \in FsEnv : Start(f, <<"check_env_file">>)

\* check_env_file alone, on the wider sample of .env files
SpecEnv == InitEnv /\ [][check_env_file]_vars

-----------------------------------------------------------------------------
(* Vocabulary of the properties *)

\* how many entries of a list satisfy a test
Count(list, Test(_)) == Len(SelectSeq(list, Test))

\* how many messages of a list name x
Naming(list, x) ==
    LET names(m) == x \in Range(m.args)
    IN  Count(list, names)

IsPrefix(s, t) == Len(s) <= Len(t) /\ SubSeq(t, 1, Len(s)) = s

\* the lines of a text, each without its "\n"
RECURSIVE LinesFrom(_, _)
LinesFrom(text, line) ==
    IF text = <<>> THEN (IF line = <<>> THEN <<>> ELSE <<line>>)
    ELSE IF Head(text) = "\n" THEN <<line>> \o LinesFrom(Tail(text), <<>>)
    ELSE LinesFrom(Tail(text), Append(line, Head(text)))

\* the values the lines "var=..." of a text give var, one after the other
ValueOf(text, var) ==
    LET lines == LinesFrom(text, <<>>)
        assigns(l) == Len(l) >= 2 /\ l[1] = var /\ l[2] = "="
        own == SelectSeq(lines, assigns)
    IN  Flatten([i \in DOMAIN own |-> SubSeq(own[i], 3, Len(own[i])) \o <<"\n">>])

\* every inspected path exists
AllPresent(f) == \A p \in Paths : Exists(f, p)

\* the text of .env holds none of the weak patterns
NoWeakPatterns(f) ==
    \A i \in DOMAIN weak_patterns : ~WeakHit(f[".env"].text, weak_patterns[i][2])

-----------------------------------------------------------------------------
(* Properties *)

\* C1: whenever main() returns, the value is 0 or 1, and it is 0 exactly
\* when the issues list is empty; warnings do not change it.
C1_ExitStatusIffNoIssues ==
    returned # <<>> =>
        /\ returned[1] \in {0, 1}
        /\ (returned[1] = 0) <=> (issues = <<>>)

\* a run that returned 0 with warnings recorded
C1_Witness == returned = <<0>> /\ warnings # <<>>

\* C2: every run makes the seven checks once each, in the order of main,
\* then the summary; and a run without .env records exactly one issue about
\* the environment file and still makes the six later checks.
C2_EveryCheckOnceInOrder ==
    LET envIssue(m) == m = EnvNotFound
    IN  /\ IsPrefix(executed, main)
        /\ Terminated => executed = main
        /\ (Terminated /\ ~Exists(fs0, ".env")) => Count(issues, envIssue) = 1

\* C3 as stated: all inspected paths present and no weak pattern in .env give
\* a run that ends with no issue, no warning and status 0.
C3_PresentAndNoWeakIsClean ==
    (Done /\ AllPresent(fs0) /\ NoWeakPatterns(fs0)) =>
        (issues = <<>> /\ warnings = <<>> /\ returned = <<0>>)

\* all inspected paths present; .env, .gitignore and nginx.prod.conf readable
\* regular files; .env closed to others, assigning every required variable,
\* free of weak patterns; every sensitive pattern and every header written
WellConfigured(f) ==
    /\ AllPresent(f)
    /\ NoWeakPatterns(f)
    /\ \A p \in {".env", ".gitignore", "nginx.prod.conf"} : ReadError(f, p) = "none"
    /\ Perms(f, ".env")[3] = 0
    /\ MissingVars(f[".env"].text) = <<>>
    /\ MissingFrom(f[".gitignore"].text, sensitive_patterns) = <<>>
    /\ MissingFrom(f["nginx.prod.conf"].text, security_headers) = <<>>

\* C3, amended: a run started in a well-configured directory ends without an
\* exception, with no issue, no warning and status 0.
C3_WellConfiguredIsClean ==
    (Terminated /\ WellConfigured(fs0)) =>
        (exception = "none" /\ issues = <<>> /\ warnings = <<>>
         /\ returned = <<0>>)

\* a finished run that started in a well-configured directory
C3_Witness == Done /\ WellConfigured(fs0)

\* C4: over a whole run, each required file that is absent is named by
\* exactly one issue and costs one checks_failed, and each one present is named
\* by no issue and earns one checks_passed in check_docker_files.
C4_EachArtifactCountedOnce ==
    /\ [](Terminated =>
            \A i \in DOMAIN required_files :
                Naming(issues, required_files[i]) =
                    IF Exists(fs0, required_files[i]) THEN 0 ELSE 1)
    /\ [][(pc # <<>> /\ Head(pc) = "check_docker_files") =>
            LET gone == NotFound(fs, required_files)
            IN  /\ checks_failed' = checks_failed + Len(gone)
                /\ checks_passed' =
                       checks_passed + Len(required_files) - Len(gone)]_vars

C6_NoExceptionEscapes ==
    /\ exception = "none"
    /\ Terminated => returned \in {<<0>>, <<1>>}

\* the checks, other than those of .env and of the required files, that
\* first ask whether a path exists
OtherGated ==
    {"check_ssl_certificates", "check_directory_structure", "check_gitignore",
     "check_python_compiled", "check_security_headers"}

\* how a run started in the empty directory ends
EmptyDirectoryEnd ==
    (fs0 = EmptyDirectory /\ Terminated) =>
        /\ returned = <<1>>
        /\ EnvNotFound \in Range(issues)
        /\ \A i \in DOMAIN required_files : Naming(issues, required_files[i]) = 1
        /\ \A i \in DOMAIN required_dirs : Exists(fs, required_dirs[i])

\* C7 as stated: in the empty directory the run returns 1 with the
\* environment-file issue and one issue per required file, each other
\* existence-gated check adds a warning and no issue, and the three
\* directories exist afterwards.
C7_EmptyDirectoryAllGatedWarn ==
    /\ []EmptyDirectoryEnd
    /\ [][(fs0 = EmptyDirectory /\ pc # <<>> /\ Head(pc) \in OtherGated) =>
            (Len(warnings') > Len(warnings) /\ issues' = issues)]_vars

\* C7, amended: as stated, but check_security_headers adds nothing.
C7_EmptyDirectoryRun ==
    /\ []EmptyDirectoryEnd
    /\ [][(fs0 = EmptyDirectory /\ pc # <<>> /\ Head(pc) \in OtherGated) =>
            IF Head(pc) = "check_security_headers"
            THEN warnings' = warnings /\ issues' = issues
            ELSE Len(warnings') > Len(warnings) /\ issues' = issues]_vars

\* a finished run that started in the empty directory
C7_Witness == fs0 = EmptyDirectory /\ Done /\ Len(warnings) > Len(issues)

\* C8: check_env_file warns about variable V once for each pair (V, pattern)
\* whose pattern V's own value holds, and for no other pair.
C8_WeakWarningOnlyForOwnValue ==
    (Done /\ Exists(fs0, ".env")) =>
        \A i \in DOMAIN weak_patterns :
            LET var == weak_patterns[i][1]
                about(m) == m = WeakValue(var)
                own(p) == /\ p[1] = var
                          /\ WeakHit(ValueOf(fs0[".env"].text, var), p[2])
            IN  Count(warnings, about) = Count(weak_patterns, own)

\* C9: checks_failed is the length of issues in every state, a step adds as
\* many to the one as to the other, and no step shortens a list or lowers a
\* counter.
C9_FailedCountsIssues ==
    /\ [](checks_failed = Len(issues))
    /\ [][/\ IsPrefix(issues, issues')
          /\ IsPrefix(warnings, warnings')
          /\ checks_passed' >= checks_passed
          /\ checks_failed' - checks_failed = Len(issues') - Len(issues)]_vars

\* a run that recorded every issue a run can record
C9_Witness == Done /\ checks_failed = 7 /\ Len(issues) = 7

\* C10 as stated: a second run that follows a run that returned returns the
\* same status and records no issue the first did not.
C10_SecondRunSame ==
    (run > 1 /\ Terminated /\ prev[1].returned # <<>>) =>
        /\ returned = prev[1].returned
        /\ Range(issues) \subseteq Range(prev[1].issues)

\* C10, amended: if nginx_ssl exists when the earlier run starts, the later run
\* ends as the earlier did (the same status, or the same exception) and records
\* no issue the earlier did not.
C10_SecondRunSameWithSslDir ==
    (run > 1 /\ Terminated /\ Exists(prev[1].fs0, "nginx_ssl")) =>
        /\ returned = prev[1].returned
        /\ exception = prev[1].exception
        /\ Range(issues) \subseteq Range(prev[1].issues)

\* a second run that returned 0 after a first run that created a directory
C10_Witness ==
    /\ run = 2
    /\ returned = <<0>>
    /\ Exists(prev[1].fs0, "nginx_ssl")
    /\ prev[1].fs0 # fs0

====
